---- MODULE Spec2Model ----
(***************************************************************************)
(* The polling client of static/script.js: the page-level variables, the  *)
(* /current_mudra polling loop with its in-flight guard and stability     *)
(* counter, the detection statistics, the bounded history, the            *)
(* /mudra_info requests and resetStats.                                    *)
(***************************************************************************)
EXTENDS Integers, Sequences, FiniteSets

\* ------------------------------------------------------------ constants

\* The placeholder name the server returns when no hand gesture is seen.
NoMudra == "No Mudra Detected"

\* JavaScript's null (lastDetectedMudra, currentMudraInfo).
Null == "null"

\* Gesture names the server can return besides the placeholder.
Mudras == {"Pataka Mudra", "Tripataka Mudra"}

\* Every value of data.mudra in a successful /current_mudra response.
Names == Mudras \cup {NoMudra}

\* let requiredStableFrames = 3
requiredStableFrames == 3

\* The history keeps the last 10 entries.
HistoryLimit == 10

\* Content or style of a page element the script has not written yet: whatever
\* the page's markup gives it.
Markup == "markup"

\* The ways a poll can fail: fetch rejects, response.json() rejects, or the
\* response handler throws on its first statement (data is not an object).
FailKinds == {"network", "parse", "throw"}

\* ---------------------------------------------------------------- bounds

\* Detections counted in one run of Spec.
MaxDetections == 3

\* Detections counted in one run of SpecHist: enough to overflow the history.
MaxHistDetections == 11

\* Largest value stableFrames is followed to.
MaxStable == 4

\* The run of identical successful polls is counted up to this length.
MaxRun == requiredStableFrames + 1

\* ----------------------------------------------------------------- state

VARIABLES
    detectionCount,     \* let detectionCount = 0
    uniqueMudras,       \* let uniqueMudras = new Set()
    mudraHistory,       \* let mudraHistory = []: entries, newest first
    currentMudra,       \* let currentMudra = "No Mudra Detected"
    previousMudra,      \* let previousMudra = "No Mudra Detected"
    isUpdating,         \* let isUpdating = false
    stableFrames,       \* let stableFrames = 0
    lastDetectedMudra,  \* let lastDetectedMudra = null
    currentMudraInfo,   \* let currentMudraInfo = null: the name the info was fetched for
    inFlight,           \* GET /current_mudra requests issued and not yet settled
    infoPending,        \* names with a GET /mudra_info/<name> request not yet settled
    lastPoll,           \* history variable: name returned by the latest successful poll
    runLen,             \* history variable: length of the run of identical successful polls
    counted,            \* history variable: names counted since the last confirmed reset, oldest first
    released,           \* history variable: a hand removal or a reset happened since the last count
    lastOutcome,        \* history variable: how the latest settled poll ended
    mudraNameText,      \* textContent of #mudra-name
    descriptionText,    \* textContent of #mudra-description: "" or the name whose description it is
    detailsBtn,         \* style.display of #details-btn
    modalOpen,          \* #mudra-detail-modal is displayed
    modalName,          \* textContent of #modal-mudra-name
    modalInfo,          \* the name whose info fills the modal
    everChanged         \* history variable: some successful poll returned a new name

vars == <<detectionCount, uniqueMudras, mudraHistory, currentMudra, previousMudra,
          isUpdating, stableFrames, lastDetectedMudra, currentMudraInfo, inFlight,
          infoPending, lastPoll, runLen, counted, released, lastOutcome,
          mudraNameText, descriptionText, detailsBtn, modalOpen, modalName,
          modalInfo, everChanged>>

\* The page-level variables the poll handler and resetStats work on.
pageState == <<detectionCount, uniqueMudras, mudraHistory, currentMudra, previousMudra,
               stableFrames, lastDetectedMudra, currentMudraInfo>>

\* The elements of the status card the script writes.
statusCard == <<mudraNameText, descriptionText, detailsBtn>>

\* The detail modal.
modal == <<modalOpen, modalName, modalInfo>>

history == <<lastPoll, runLen, counted, released, everChanged>>

\* Every history variable.
allHistory == <<history, lastOutcome>>

Init ==
    /\ detectionCount = 0
    /\ uniqueMudras = {}
    /\ mudraHistory = <<>>
    /\ currentMudra = NoMudra
    /\ previousMudra = NoMudra
    /\ isUpdating = FALSE
    /\ stableFrames = 0
    /\ lastDetectedMudra = Null
    /\ currentMudraInfo = Null
    /\ inFlight = 0
    /\ infoPending = {}
    /\ lastPoll = Null
    /\ runLen = 0
    /\ counted = <<>>
    /\ released = TRUE
    /\ lastOutcome = "none"
    /\ mudraNameText = Markup
    /\ descriptionText = Markup
    /\ detailsBtn = Markup
    /\ modalOpen = FALSE
    /\ modalName = Markup
    /\ modalInfo = Markup
    /\ everChanged = FALSE

\* --------------------------------------------------------------- helpers

Min(a, b) == IF a < b THEN a ELSE b

\* Faulty variant: the counter is not reset when the name changes.
NewStableFramesNoReset(mudraName) == stableFrames + 1

\* if (mudraName !== currentMudra) stableFrames = 0; else stableFrames++
NewStableFrames(mudraName) ==
    IF mudraName # currentMudra THEN 0 ELSE stableFrames + 1

\* Faulty variant: previousMudra = currentMudra is done outside the if.
NewPreviousMudraAlways(mudraName) == currentMudra

\* previousMudra after the handler: the old currentMudra when the name changed.
NewPreviousMudra(mudraName) ==
    IF mudraName # currentMudra THEN currentMudra ELSE previousMudra

\* Faulty variant: the comparison with the last counted gesture is left out.
IsNewDetectionNoLastCheck(mudraName, sf) ==
    /\ mudraName # NoMudra
    /\ sf = requiredStableFrames

\* Faulty variant: the count is not inside the branch for a detected gesture.
IsNewDetectionCountsPlaceholder(mudraName, sf) ==
    /\ sf = requiredStableFrames
    /\ mudraName # lastDetectedMudra

\* stableFrames === requiredStableFrames && mudraName !== lastDetectedMudra,
\* inside the branch for a name other than the placeholder.
IsNewDetection(mudraName, sf) ==
    /\ mudraName # NoMudra
    /\ sf = requiredStableFrames
    /\ mudraName # lastDetectedMudra

\* Faulty variant: >= in place of >.
HandRemovedAtThreshold(mudraName, sf) ==
    mudraName = NoMudra /\ sf >= requiredStableFrames

\* mudraName === "No Mudra Detected" && stableFrames > requiredStableFrames
HandRemoved(mudraName, sf) ==
    mudraName = NoMudra /\ sf > requiredStableFrames

\* Faulty variant: the hand-removal branch also clears the counter.
CountAfterPollClearedOnRemoval(mudraName, sf) ==
    IF IsNewDetection(mudraName, sf) THEN detectionCount + 1
    ELSE IF HandRemoved(mudraName, sf) THEN 0
    ELSE detectionCount

\* detectionCount after the handler.
CountAfterPoll(mudraName, sf) ==
    IF IsNewDetection(mudraName, sf) THEN detectionCount + 1 ELSE detectionCount

\* lastDetectedMudra after the handler.
LastAfterPoll(mudraName, sf) ==
    IF IsNewDetection(mudraName, sf) THEN mudraName
    ELSE IF HandRemoved(mudraName, sf) THEN Null
    ELSE lastDetectedMudra

\* Faulty variant: the length check is left out.
addToHistoryNoPop(h, mudraName) == <<[name |-> mudraName]>> \o h

\* Faulty variant: shift() in place of pop(): the newest entry is dropped.
addToHistoryShift(h, mudraName) ==
    LET u == <<[name |-> mudraName]>> \o h
    IN  IF Len(u) > HistoryLimit THEN SubSeq(u, 2, Len(u)) ELSE u

\* mudraHistory.unshift({name, time}); if (mudraHistory.length > 10) mudraHistory.pop()
\* The time of an entry is a display string nothing reads back; entries carry the name.
addToHistory(h, mudraName) ==
    LET u == <<[name |-> mudraName]>> \o h
    IN  IF Len(u) > HistoryLimit THEN SubSeq(u, 1, Len(u) - 1) ELSE u

\* fetchMudraInfo(mudraName): issues GET /mudra_info/<name>.
fetchMudraInfo(mudraName) == infoPending \cup {mudraName}

\* --------------------------------------------------------------- actions

\* Faulty variant: the isUpdating check is left out.
TickNoGuard ==
    /\ isUpdating' = TRUE
    /\ inFlight' = inFlight + 1
    /\ UNCHANGED <<pageState, infoPending, statusCard, modal, allHistory>>

\* setInterval(updateMudraDisplay, 200): one tick of the interval.
Tick ==
    IF isUpdating
    THEN UNCHANGED vars
    ELSE /\ isUpdating' = TRUE
         /\ inFlight' = inFlight + 1
         /\ UNCHANGED <<pageState, infoPending, statusCard, modal, allHistory>>

\* A /current_mudra request settles with {mudra: mudraName}: the .then handler
\* and the .finally of updateMudraDisplay.
PollOK(mudraName, limit) ==
    LET sf == NewStableFrames(mudraName)
        new == IsNewDetection(mudraName, sf)
    IN  /\ inFlight > 0
        /\ sf <= MaxStable
        /\ new => detectionCount < limit
        /\ stableFrames' = sf
        /\ previousMudra' = NewPreviousMudra(mudraName)
        /\ currentMudra' = mudraName
        /\ infoPending' = IF new THEN fetchMudraInfo(mudraName) ELSE infoPending
        /\ detectionCount' = CountAfterPoll(mudraName, sf)
        /\ uniqueMudras' = IF new THEN uniqueMudras \cup {mudraName} ELSE uniqueMudras
        /\ lastDetectedMudra' = LastAfterPoll(mudraName, sf)
        /\ mudraHistory' = IF new THEN addToHistory(mudraHistory, mudraName)
                           ELSE mudraHistory
        /\ isUpdating' = FALSE
        /\ inFlight' = inFlight - 1
        /\ UNCHANGED currentMudraInfo
        /\ mudraNameText' = mudraName
        /\ descriptionText' = IF mudraName = NoMudra THEN "" ELSE descriptionText
        /\ detailsBtn' = IF mudraName = NoMudra THEN "none" ELSE detailsBtn
        /\ UNCHANGED modal
        /\ lastPoll' = mudraName
        /\ runLen' = IF mudraName = lastPoll THEN Min(runLen + 1, MaxRun) ELSE 1
        /\ counted' = IF detectionCount' > detectionCount
                      THEN Append(counted, mudraName) ELSE counted
        /\ released' = IF detectionCount' > detectionCount THEN FALSE
                       ELSE IF mudraName = NoMudra /\ sf > 3 THEN TRUE
                       ELSE released
        /\ lastOutcome' = "ok"
        /\ everChanged' = (everChanged \/ mudraName #
                              (IF lastPoll = Null THEN NoMudra ELSE lastPoll))

\* Faulty variant: the .catch puts the display back to the placeholder.
PollFailClearsDisplay(kind) ==
    /\ inFlight > 0
    /\ kind \in FailKinds
    /\ isUpdating' = FALSE
    /\ inFlight' = inFlight - 1
    /\ lastOutcome' = "failed"
    /\ currentMudra' = NoMudra
    /\ stableFrames' = 0
    /\ UNCHANGED <<detectionCount, uniqueMudras, mudraHistory, previousMudra,
                   lastDetectedMudra, currentMudraInfo, infoPending, statusCard,
                   modal, history>>

\* Faulty variant: no .finally, the flag is cleared by the .then handler only.
PollFailKeepsFlag(kind) ==
    /\ inFlight > 0
    /\ kind \in FailKinds
    /\ inFlight' = inFlight - 1
    /\ lastOutcome' = "failed"
    /\ UNCHANGED <<pageState, isUpdating, infoPending, statusCard, modal, history>>

\* A /current_mudra request fails: the .catch logs, the .finally clears the flag.
PollFail(kind) ==
    /\ inFlight > 0
    /\ kind \in FailKinds
    /\ isUpdating' = FALSE
    /\ inFlight' = inFlight - 1
    /\ lastOutcome' = "failed"
    /\ UNCHANGED <<pageState, infoPending, statusCard, modal, history>>

\* A /mudra_info/<name> request settles with the info of that name.
InfoResponse(mudraName) ==
    /\ mudraName \in infoPending
    /\ infoPending' = infoPending \ {mudraName}
    /\ currentMudraInfo' = mudraName
    /\ descriptionText' = mudraName
    /\ detailsBtn' = "inline-block"
    /\ UNCHANGED <<detectionCount, uniqueMudras, mudraHistory, currentMudra,
                   previousMudra, isUpdating, stableFrames, lastDetectedMudra,
                   inFlight, mudraNameText, modal, allHistory>>

\* A /mudra_info/<name> request fails: logged, nothing else.
InfoFail(mudraName) ==
    /\ mudraName \in infoPending
    /\ infoPending' = infoPending \ {mudraName}
    /\ UNCHANGED <<pageState, isUpdating, inFlight, statusCard, modal, allHistory>>

\* Faulty variant: uniqueMudras is not replaced by a new Set.
resetStatsKeepsUnique(confirmed) ==
    IF confirmed
    THEN /\ detectionCount' = 0
         /\ mudraHistory' = <<>>
         /\ lastDetectedMudra' = Null
         /\ stableFrames' = 0
         /\ counted' = <<>>
         /\ released' = TRUE
         /\ UNCHANGED <<uniqueMudras, currentMudra, previousMudra, isUpdating,
                        currentMudraInfo, inFlight, infoPending, statusCard, modal,
                        lastPoll, runLen, lastOutcome, everChanged>>
    ELSE UNCHANGED vars

\* Faulty variant: stableFrames is not reset.
resetStatsKeepsStableFrames(confirmed) ==
    IF confirmed
    THEN /\ detectionCount' = 0
         /\ uniqueMudras' = {}
         /\ mudraHistory' = <<>>
         /\ lastDetectedMudra' = Null
         /\ counted' = <<>>
         /\ released' = TRUE
         /\ UNCHANGED <<stableFrames, currentMudra, previousMudra, isUpdating,
                        currentMudraInfo, inFlight, infoPending, statusCard, modal,
                        lastPoll, runLen, lastOutcome, everChanged>>
    ELSE UNCHANGED vars

\* resetStats(): confirmed is the answer to the confirm() dialog.
resetStats(confirmed) ==
    IF confirmed
    THEN /\ detectionCount' = 0
         /\ uniqueMudras' = {}
         /\ mudraHistory' = <<>>
         /\ lastDetectedMudra' = Null
         /\ stableFrames' = 0
         /\ counted' = <<>>
         /\ released' = TRUE
         /\ UNCHANGED <<currentMudra, previousMudra, isUpdating, currentMudraInfo,
                        inFlight, infoPending, statusCard, modal, lastPoll, runLen,
                        lastOutcome, everChanged>>
    ELSE UNCHANGED vars

\* showCurrentMudraDetails(), the click handler of #details-btn, which cannot be
\* clicked while the script has it hidden: showMudraDetails(currentMudra,
\* currentMudraInfo) when there is an info and a gesture.
showCurrentMudraDetails ==
    /\ detailsBtn # "none"
    /\ IF currentMudraInfo # Null /\ currentMudra # NoMudra
       THEN /\ modalName' = currentMudra
            /\ modalInfo' = currentMudraInfo
            /\ modalOpen' = TRUE
       ELSE UNCHANGED modal
    /\ UNCHANGED <<pageState, isUpdating, inFlight, infoPending, statusCard,
                   allHistory>>

\* closeMudraDetails(): hides the modal and keeps its content.
closeMudraDetails ==
    /\ modalOpen
    /\ modalOpen' = FALSE
    /\ UNCHANGED <<modalName, modalInfo, pageState, isUpdating, inFlight,
                   infoPending, statusCard, allHistory>>

Next ==
    \/ Tick
    \/ \E n \in Names : PollOK(n, MaxDetections)
    \/ \E k \in FailKinds : PollFail(k)
    \/ \E n \in Mudras : InfoResponse(n)
    \/ \E n \in Mudras : InfoFail(n)
    \/ \E c \in BOOLEAN : resetStats(c)
    \/ showCurrentMudraDetails
    \/ closeMudraDetails

Spec == Init /\ [][Next]_vars

\* The polling loop and resetStats alone, followed far enough to overflow the
\* history. The /mudra_info requests stay pending: their settling touches only
\* infoPending, currentMudraInfo and the page's elements, which no action here reads.
NextHist ==
    \/ Tick
    \/ \E n \in Names : PollOK(n, MaxHistDetections)
    \/ \E k \in FailKinds : PollFail(k)
    \/ \E c \in BOOLEAN : resetStats(c)

SpecHist == Init /\ [][NextHist]_vars

\* The interval keeps firing, and every request eventually settles.
Settle == \E n \in Names : PollOK(n, MaxDetections) \/ \E k \in FailKinds : PollFail(k)

FairSpec == Spec /\ WF_vars(Tick) /\ WF_vars(Settle)

\* ---------------------------------------------------------------- claims

\* The most recently counted name since the last confirmed reset, if any.
LastCounted == IF counted = <<>> THEN Null ELSE counted[Len(counted)]

\* C1: a gesture other than the placeholder that differs from the last counted
\* gesture is counted (detectionCount incremented, the name added to uniqueMudras
\* and put at the front of the history) by the successful poll that completes
\* requiredStableFrames = 3 consecutive polls returning it.
C1_ThreePollsAreCounted ==
    [][\A g \in Mudras :
         (PollOK(g, MaxDetections) /\ g # lastDetectedMudra
                                   /\ runLen' = requiredStableFrames)
           => /\ detectionCount' = detectionCount + 1
              /\ g \in uniqueMudras'
              /\ mudraHistory' # <<>>
              /\ mudraHistory'[1].name = g]_vars

\* C2: a successful poll increments detectionCount only if it and the two
\* successful polls before it returned the same name, and a poll returning a name
\* different from the previous poll sets stableFrames to 0 and counts nothing.
C2_FlickerNeverCounted ==
    [][\A n \in Names :
         PollOK(n, MaxDetections)
           => /\ detectionCount' > detectionCount => runLen' >= 3
              /\ (lastPoll # Null /\ n # lastPoll)
                   => (stableFrames' = 0 /\ detectionCount' = detectionCount)]_vars

\* C2 witness: after a counted detection the name flickered from one gesture to
\* the other, and the flicker was not counted.
C2_Witness ==
    /\ detectionCount = 1
    /\ runLen = 1
    /\ lastPoll \in Mudras
    /\ previousMudra \in Mudras
    /\ lastPoll # LastCounted
    /\ stableFrames = 0

\* C3: at most one /current_mudra request is in flight, and a tick that fires
\* while isUpdating is true issues no request and changes nothing.
C3_OneRequestInFlight ==
    [][/\ inFlight' <= 1
       /\ (isUpdating /\ Tick) => UNCHANGED vars]_vars

\* C3 witness: a request is outstanding after an earlier one has settled, so a
\* tick can fire while it is in flight.
C3_Witness == isUpdating /\ inFlight = 1 /\ lastOutcome # "none"

\* C4: a failed poll leaves detectionCount, uniqueMudras, mudraHistory,
\* currentMudra, previousMudra, stableFrames, lastDetectedMudra and
\* currentMudraInfo unchanged and clears the in-flight flag.
C4_FailedPollKeepsState ==
    [][(inFlight' < inFlight /\ lastOutcome' = "failed")
         => (UNCHANGED pageState /\ ~isUpdating')]_vars

\* C4 witness: the latest poll failed while a counted gesture was on display
\* and its info had arrived.
C4_Witness ==
    /\ lastOutcome = "failed"
    /\ ~isUpdating
    /\ detectionCount > 0
    /\ currentMudra \in Mudras
    /\ stableFrames > 0
    /\ currentMudraInfo # Null

\* C5: mudraHistory never holds more than 10 entries.
C5_HistoryAtMostTen == Len(mudraHistory) <= 10

\* C5 witness: an eleventh detection was counted and the history holds 10 entries.
C5_Witness == detectionCount > 10 /\ Len(mudraHistory) = 10

\* C6: every step other than a confirmed resetStats leaves detectionCount
\* unchanged or adds exactly 1 to it; the only step that lowers it is a confirmed
\* resetStats, which sets it to 0.
C6_CountMonotonicUntilReset ==
    [][/\ ~resetStats(TRUE)
            => detectionCount' \in {detectionCount, detectionCount + 1}
       /\ detectionCount' < detectionCount
            => (resetStats(TRUE) /\ detectionCount' = 0)]_vars

\* C6 witness: the counter is back at 0 after a detection was counted (its info
\* has arrived) and, since then, the held gesture has been polled again.
C6_Witness ==
    /\ detectionCount = 0
    /\ currentMudraInfo # Null
    /\ currentMudra \in Mudras
    /\ stableFrames = 2

\* C7: isUpdating is true exactly while a /current_mudra request is outstanding,
\* and, the interval firing and requests settling, a new request is issued after
\* every failure.
C7_GuardNeverBlocks ==
    /\ [](isUpdating <=> inFlight = 1)
    /\ (lastOutcome = "failed") ~> (isUpdating /\ inFlight = 1)

\* C7 witness: a request is in flight after the previous one failed.
C7_Witness == lastOutcome = "failed" /\ isUpdating /\ inFlight = 1

\* C8: the gesture counted last is not counted again unless, since it was
\* counted, a poll returned the placeholder with stableFrames above
\* requiredStableFrames or resetStats was confirmed.
C8_NoRecountWithoutRelease ==
    [][(detectionCount' = detectionCount + 1 /\ lastPoll' = LastCounted)
         => released]_vars

\* C8 witness: the one counted gesture came back after a flicker to the other
\* gesture, became stable again and was not counted a second time.
C8_Witness ==
    /\ counted = <<"Pataka Mudra">>
    /\ detectionCount = 1
    /\ currentMudra = "Pataka Mudra"
    /\ previousMudra = "Tripataka Mudra"
    /\ stableFrames > requiredStableFrames
    /\ ~released

\* C9: a poll returning the placeholder sets lastDetectedMudra to null once
\* stableFrames exceeds requiredStableFrames and leaves it unchanged before that;
\* with lastDetectedMudra null, a gesture that becomes stable is counted.
C9_HandRemovalClearsLast ==
    [][/\ PollOK(NoMudra, MaxDetections)
            => /\ stableFrames' > requiredStableFrames => lastDetectedMudra' = Null
               /\ stableFrames' <= requiredStableFrames
                    => lastDetectedMudra' = lastDetectedMudra
       /\ \A g \in Mudras :
            (PollOK(g, MaxDetections) /\ lastDetectedMudra = Null
                                      /\ stableFrames' = requiredStableFrames)
              => detectionCount' = detectionCount + 1]_vars

\* C9 witness: the same gesture was counted twice in a row, the hand having been
\* removed in between.
C9_Witness ==
    /\ Len(counted) = 2
    /\ counted[1] = counted[2]
    /\ lastDetectedMudra = counted[2]

\* The names of the most recent min(k, 10) counted detections, newest first.
RecentCounted ==
    [i \in 1..Min(Len(counted), 10) |-> [name |-> counted[Len(counted) + 1 - i]]]

\* C10: mudraHistory holds the names of the most recent min(k, 10) detections
\* counted since the last confirmed reset, newest first.
C10_HistoryIsRecentCounted == mudraHistory = RecentCounted

\* C10 witness: more than 10 detections were counted, of both gestures, so the
\* oldest entry was dropped.
C10_Witness ==
    /\ Len(counted) > 10
    /\ counted[1] # counted[2]
    /\ mudraHistory[1].name # mudraHistory[10].name

\* The names counted since the last confirmed reset.
CountedNames == {counted[i] : i \in 1..Len(counted)}

\* C11: the statistics agree: the history holds min(detectionCount, 10) entries,
\* uniqueMudras is the set of names counted since the last confirmed reset, it has
\* at most detectionCount elements, it holds every name of the history, and it is
\* empty exactly when detectionCount is 0.
C11_StatisticsConsistent ==
    /\ Len(mudraHistory) = Min(detectionCount, 10)
    /\ uniqueMudras = CountedNames
    /\ Cardinality(uniqueMudras) <= detectionCount
    /\ \A i \in 1..Len(mudraHistory) : mudraHistory[i].name \in uniqueMudras
    /\ (uniqueMudras = {}) <=> (detectionCount = 0)

\* C11 witness: more detections than the history holds were counted, of both
\* gestures.
C11_Witness ==
    /\ detectionCount > 10
    /\ Cardinality(uniqueMudras) = 2
    /\ Len(mudraHistory) = 10

\* C12: the placeholder is never counted: it is not in uniqueMudras, it names no
\* history entry, lastDetectedMudra is never equal to it, and a poll returning it
\* leaves detectionCount unchanged.
C12_PlaceholderNeverCounted ==
    [][/\ NoMudra \notin uniqueMudras'
       /\ \A i \in 1..Len(mudraHistory') : mudraHistory'[i].name # NoMudra
       /\ lastDetectedMudra' # NoMudra
       /\ PollOK(NoMudra, MaxDetections) => detectionCount' = detectionCount]_vars

\* C12 witness: after a counted detection the placeholder was polled until
\* stableFrames reached requiredStableFrames, with lastDetectedMudra still set.
C12_Witness ==
    /\ lastPoll = NoMudra
    /\ currentMudra = NoMudra
    /\ stableFrames = requiredStableFrames
    /\ lastDetectedMudra \in Mudras
    /\ detectionCount = 1

\* C13: a confirmed resetStats sets detectionCount to 0, uniqueMudras and
\* mudraHistory to empty, lastDetectedMudra to null and stableFrames to 0 and
\* leaves currentMudra, previousMudra, currentMudraInfo and isUpdating unchanged;
\* a declined one changes nothing.
C13_ResetEffect ==
    [][/\ resetStats(TRUE)
            => /\ detectionCount' = 0
               /\ uniqueMudras' = {}
               /\ mudraHistory' = <<>>
               /\ lastDetectedMudra' = Null
               /\ stableFrames' = 0
               /\ UNCHANGED <<currentMudra, previousMudra, currentMudraInfo,
                              isUpdating>>
       /\ resetStats(FALSE) => UNCHANGED vars]_vars

\* C13 witness: the statistics were reset while a counted gesture was held, its
\* info had arrived and a request was in flight.
C13_Witness ==
    /\ detectionCount = 0
    /\ uniqueMudras = {}
    /\ mudraHistory = <<>>
    /\ stableFrames = 0
    /\ runLen >= 2
    /\ currentMudra \in Mudras
    /\ previousMudra \in Mudras
    /\ currentMudraInfo # Null
    /\ isUpdating

\* C14: when the detail modal is open, the info it shows is the info fetched for
\* the gesture it names.
C14_DetailsBelongToCurrent == modalOpen => modalInfo = modalName

\* C15: while the latest successful poll returned the placeholder, the details
\* button is hidden and the description is empty.
C15_HiddenWhilePlaceholder ==
    lastPoll = NoMudra => (detailsBtn = "none" /\ descriptionText = "")

\* C16: after a successful poll the displayed name and currentMudra are the name
\* it returned; a poll that changes currentMudra puts the old value into
\* previousMudra; once a poll has returned a new name, currentMudra and
\* previousMudra differ.
C16_DisplayFollowsPoll ==
    [][/\ \A n \in Names :
            PollOK(n, MaxDetections)
              => /\ mudraNameText' = n
                 /\ currentMudra' = n
                 /\ currentMudra' # currentMudra => previousMudra' = currentMudra
       /\ everChanged' => currentMudra' # previousMudra']_vars

\* C16 witness: a gesture replaced another one and is displayed before it is
\* stable.
C16_Witness ==
    /\ everChanged
    /\ currentMudra \in Mudras
    /\ previousMudra \in Mudras
    /\ mudraNameText = currentMudra
    /\ stableFrames < requiredStableFrames
    /\ lastOutcome = "ok"

====
